---- MODULE Spec2Model ----
(***************************************************************************)
(* News Comparison (src/app.py): a Streamlit script that gates on a login, *)
(* lets the user fill a category and a location (by hand or at random)     *)
(* and, on "Get News", queries Syracuse (paginated) and Perplexity (one    *)
(* call whose content is parsed and sorted) and renders one panel each.    *)
(*                                                                         *)
(* Strings are sequences of code points, so that Python's str comparison   *)
(* (lexicographic by code point), slicing, strip and concatenation are     *)
(* computed and not assumed.  An optional value (dict.get, JSON null) is   *)
(* a sequence of length 0 (absent) or 1 (present).                         *)
(***************************************************************************)
EXTENDS Integers, Sequences, FiniteSets, TLC

VARIABLES
    credentials,    \* st.secrets["credentials"]: username -> password
    categories,     \* CATEGORIES: top -> second-level value
    locations,      \* LOCATIONS: list of strings
    authenticated,  \* st.session_state["authenticated"]
    category_text,  \* st.session_state["category_text"]
    location,       \* st.session_state["location"]
    loginForm,      \* the last submitted login form: <<username, password>>
    screen,         \* what the last script run drew: "login" or "main"
    pc,             \* position of the running handler
    industry,       \* Get News handler local (line 259)
    reqLocation,    \* Get News handler local (line 260)
    url,            \* fetch_syracuse local: the next URL, optional
    params,         \* fetch_syracuse local: query params, optional
    all_results,    \* fetch_syracuse local
    retA,           \* fetch_syracuse's return value, optional
    netA,           \* Syracuse request in flight, optional
    served,         \* pages Syracuse has served to this call, in order
    netB,           \* Perplexity request in flight, optional
    respB,          \* Perplexity's response to this submission, optional
    retB,           \* fetch_perplexity's return value, optional
    panelA,         \* elements drawn in the Syracuse column
    panelB,         \* elements drawn in the Perplexity column
    crashed         \* an exception left the Get News handler

vars == <<credentials, categories, locations, authenticated, category_text,
          location, loginForm, screen, pc, industry, reqLocation, url, params,
          all_results, retA, netA, served, netB, respB, retB, panelA,
          panelB, crashed>>

cfgVars == <<credentials, categories, locations>>
handlerVars == <<industry, reqLocation, url, params, all_results, retA,
                 netA, served, netB, respB, retB, panelA, panelB, crashed>>

-----------------------------------------------------------------------------
(* Bounds of the model *)

MaxTops == 2        \* top-level keys of a taxonomy
MaxSubs == 4        \* sub-industry keys under one top-level key
MaxPages == 3       \* pages of one Syracuse chain
MaxPageItems == 2   \* stories on one Syracuse page
MaxStories == 3     \* stories Syracuse serves to one call of the application
MaxArticles == 3    \* articles in Perplexity's parsed content
MaxRender == 2      \* items handed to a renderer

(* Program constants *)

NUM_DAYS == 90
SummaryLimit == 300
ShowLimit == 20
SampleLimit == 3

-----------------------------------------------------------------------------
(* Optional values and strings *)

None == <<>>
Some(x) == <<x>>
Get(o, default) == IF o = <<>> THEN default ELSE o[1]

EmptyStr == <<>>
Min(a, b) == IF a <= b THEN a ELSE b

\* s[:n]
Prefix(s, n) == SubSeq(s, 1, Min(n, Len(s)))

Whitespace == {9, 10, 11, 12, 13, 28, 29, 30, 31, 32}

RECURSIVE LStrip(_)
LStrip(s) == IF s # <<>> /\ s[1] \in Whitespace THEN LStrip(Tail(s)) ELSE s

RECURSIVE RStrip(_)
RStrip(s) ==
    IF s # <<>> /\ s[Len(s)] \in Whitespace
    THEN RStrip(SubSeq(s, 1, Len(s) - 1))
    ELSE s

\* str.strip()
Strip(s) == RStrip(LStrip(s))

\* a < b for Python str
RECURSIVE StrLess(_, _)
StrLess(a, b) ==
    IF b = <<>> THEN FALSE
    ELSE IF a = <<>> THEN TRUE
    ELSE IF a[1] # b[1] THEN a[1] < b[1]
    ELSE StrLess(Tail(a), Tail(b))

\* sep.join(parts)
RECURSIVE Join(_, _)
Join(sep, parts) ==
    IF parts = <<>> THEN EmptyStr
    ELSE IF Len(parts) = 1 THEN parts[1]
    ELSE parts[1] \o sep \o Join(sep, Tail(parts))

\* str(n) for n >= 0
RECURSIVE IntToStr(_)
IntToStr(n) ==
    IF n < 10 THEN <<48 + n>> ELSE IntToStr(n \div 10) \o <<48 + (n % 10)>>

-----------------------------------------------------------------------------
(* pick_random_category *)

\* A second-level value: a dict sub -> leaves, or anything else.
NotADict == [isDict |-> FALSE, map |-> [k \in {} |-> <<>>]]
Dict(m) == [isDict |-> TRUE, map |-> m]

\* random.sample(population, k): k distinct members, in any order
Samples(population, k) ==
    {s \in [1..k -> population] : \A i, j \in 1..k : i # j => s[i] # s[j]}

\* FormatTop with the joined sample returned in place of top
FormatTopMutant(top, sample) ==
    IF sample # <<>>
    THEN top \o <<32, 40>> \o Join(<<44, 32>>, sample) \o <<41>>
    ELSE Join(<<44, 32>>, sample)

\* line 211: f"{top} ({', '.join(sample)})" if sample else top
FormatTop(top, sample) ==
    IF sample # <<>>
    THEN top \o <<32, 40>> \o Join(<<44, 32>>, sample) \o <<41>>
    ELSE top

\* lines 207-211, for every random choice
BranchA(cats) ==
    UNION { LET second_map == cats[top]
                children == IF second_map.isDict
                            THEN DOMAIN second_map.map ELSE {}
            IN  IF children # {}
                THEN {FormatTop(top, sample) :
                        sample \in Samples(children,
                                    Min(SampleLimit, Cardinality(children)))}
                ELSE {FormatTop(top, <<>>)}
          : top \in DOMAIN cats }

\* lines 218-222, for one top and second
LeafOutcomes(top, second, leaves) ==
    IF leaves = <<>>
    THEN {second \o <<32, 40>> \o top \o <<41>>}
    ELSE {leaves[i] \o <<32, 40>> \o top \o <<32, 45, 32>> \o second \o <<41>>
            : i \in 1..Len(leaves)}

\* lines 213-222, for every random choice
BranchB(cats) ==
    UNION { LET second_map == cats[top]
            IN  IF ~second_map.isDict \/ DOMAIN second_map.map = {}
                THEN {top}
                ELSE UNION {LeafOutcomes(top, second, second_map.map[second])
                              : second \in DOMAIN second_map.map}
          : top \in DOMAIN cats }

\* The strings pick_random_category(cats) can return.
pick_random_category(cats) ==
    IF DOMAIN cats = {} THEN {EmptyStr} ELSE BranchA(cats) \cup BranchB(cats)

\* Taxonomies the sampler is checked on
TopKeyPool == << <<65>>, <<32>>, <<66, 50>>, <<67>> >>
SubPool == <<
    [key |-> <<98>>,      leaves |-> << <<120>> >>],
    [key |-> <<99>>,      leaves |-> <<>>],
    [key |-> <<100, 32>>, leaves |-> << <<121>>, <<122>> >>],
    [key |-> <<101>>,     leaves |-> <<>>],
    [key |-> <<102>>,     leaves |-> << <<119>> >>],
    [key |-> <<103>>,     leaves |-> <<>>] >>

TopKeys == {TopKeyPool[i] : i \in 1..MaxTops}
SubMap(n) ==
    [k \in {SubPool[i].key : i \in 1..n} |->
        (CHOOSE e \in {SubPool[i] : i \in 1..n} : e.key = k).leaves]
SecondMaps == {NotADict} \cup {Dict(SubMap(n)) : n \in 0..MaxSubs}
Taxonomies == UNION {[S -> SecondMaps] : S \in SUBSET TopKeys}

-----------------------------------------------------------------------------
(* News items, as the JSON objects the providers return *)

Item(headline, date, extract, summary, docUrl) ==
    [headline |-> headline, activity_class |-> None, published_date |-> date,
     published_by |-> None, document_extract |-> extract,
     summary_text |-> summary, document_url |-> docUrl, uri |-> None]

\* One element drawn in a column: the call that drew it and its text.
\*   timing   st.caption(f"Query took ...")      header  the count line
\*   headline st.markdown(f"**{headline}**")     meta    st.caption(...)
\*   body     st.write(...)                      links   the source line
\*   divider  st.divider()                       error   st.error(...)
El(kind, text) == [kind |-> kind, text |-> text]

KeyError == [kind |-> "KeyError", status |-> 0]

-----------------------------------------------------------------------------
(* render_syracuse_results *)

\* line 172: extract[:300] + ("..." if len(extract) > 300 else "")
Truncate(extract) ==
    Prefix(extract, SummaryLimit)
        \o (IF Len(extract) > SummaryLimit THEN <<46, 46, 46>> ELSE EmptyStr)

\* lines 173-177
SyracuseLinks(story) ==
    LET docUrl == Get(story.document_url, EmptyStr)
        url_markdown ==
            IF docUrl # EmptyStr
            THEN <<91, 83, 111, 117, 114, 99, 101, 93, 40>> \o docUrl \o <<41>>
            ELSE <<78, 111, 32, 115, 111, 117, 114, 99, 101, 32, 85, 82, 76>>
        syracuse_uri == Get(story.uri, EmptyStr)
        syracuse_markdown ==
            IF syracuse_uri # EmptyStr
            THEN <<91, 86, 105, 101, 119, 32, 111, 110, 32, 83, 121, 114, 97,
                   99, 117, 115, 101, 93, 40, 104, 116, 116, 112, 115, 58, 47,
                   47, 115, 121, 114, 97, 99, 117, 115, 101, 46, 49, 49, 52,
                   53, 46, 97, 109, 47, 97, 112, 105, 47, 118, 49, 47, 115,
                   116, 111, 114, 105, 101, 115, 47>> \o syracuse_uri \o <<41>>
            ELSE <<78, 111, 32, 83, 121, 114, 97, 99, 117, 115, 101, 32, 85,
                   82, 73>>
    IN  El("links", url_markdown \o <<32, 124, 32>> \o syracuse_markdown)

\* lines 164-178 for one story whose headline is present
SyracuseStory(story) ==
    LET extract == Get(story.document_extract, EmptyStr)
    IN  << El("headline", <<42, 42>> \o story.headline[1] \o <<42, 42>>),
           El("meta", Get(story.activity_class, EmptyStr) \o <<32, 124, 32>>
                       \o Get(story.published_date, <<78, 47, 65>>)
                       \o <<32, 124, 32>>
                       \o Get(story.published_by, <<78, 47, 65>>)) >>
        \o (IF extract # EmptyStr THEN <<El("body", Truncate(extract))>>
            ELSE <<>>)
        \o << SyracuseLinks(story), El("divider", EmptyStr) >>

\* lines 163-178: what is drawn until the loop ends or story['headline']
\* raises KeyError
RECURSIVE SyracuseStories(_)
SyracuseStories(stories) ==
    IF stories = <<>> THEN [out |-> <<>>, exc |-> None]
    ELSE IF Head(stories).headline = None
    THEN [out |-> <<>>, exc |-> Some(KeyError)]
    ELSE LET rest == SyracuseStories(Tail(stories))
         IN  [out |-> SyracuseStory(Head(stories)) \o rest.out,
              exc |-> rest.exc]

\* lines 159-178; data is fetch_syracuse's {"count", "results"}
render_syracuse_results(data) ==
    LET stories == data.results
        shown == SyracuseStories(Prefix(stories, ShowLimit))
    IN  [out |-> <<El("header", <<42, 42>> \o IntToStr(data.count)
                    \o <<32, 115, 116, 111, 114, 105, 101, 115, 32, 102, 111,
                         117, 110, 100, 42, 42, 32, 40, 115, 104, 111, 119,
                         105, 110, 103, 32, 117, 112, 32, 116, 111, 32, 50,
                         48, 41>>)>> \o shown.out,
         exc |-> shown.exc]

-----------------------------------------------------------------------------
(* render_perplexity_results *)

\* lines 185-194 for one article whose headline is present
PerplexityArticle(article) ==
    LET docUrl == Get(article.document_url, EmptyStr)
    IN  << El("headline", <<42, 42>> \o article.headline[1] \o <<42, 42>>),
           El("meta", Get(article.published_date, <<78, 47, 65>>)
                       \o <<32, 124, 32>>
                       \o Get(article.published_by, <<78, 47, 65>>)),
           El("body", Get(article.summary_text, EmptyStr)) >>
        \o (IF docUrl # EmptyStr
            THEN <<El("links", <<91, 83, 111, 117, 114, 99, 101, 93, 40>>
                                \o docUrl \o <<41>>)>>
            ELSE <<>>)
        \o << El("divider", EmptyStr) >>

\* lines 184-194, until the loop ends or article['headline'] raises KeyError
RECURSIVE PerplexityArticles(_)
PerplexityArticles(articles) ==
    IF articles = <<>> THEN [out |-> <<>>, exc |-> None]
    ELSE IF Head(articles).headline = None
    THEN [out |-> <<>>, exc |-> Some(KeyError)]
    ELSE LET rest == PerplexityArticles(Tail(articles))
         IN  [out |-> PerplexityArticle(Head(articles)) \o rest.out,
              exc |-> rest.exc]

\* lines 181-194
render_perplexity_results(articles) ==
    LET shown == PerplexityArticles(Prefix(articles, ShowLimit))
    IN  [out |-> <<El("header", <<42, 42>> \o IntToStr(Len(articles))
                    \o <<32, 97, 114, 116, 105, 99, 108, 101, 115, 32, 102,
                         111, 117, 110, 100, 42, 42, 32, 40, 115, 104, 111,
                         119, 105, 110, 103, 32, 117, 112, 32, 116, 111, 32,
                         50, 48, 41>>)>> \o shown.out,
         exc |-> shown.exc]

-----------------------------------------------------------------------------
(* fetch_perplexity *)

Exc(kind) == [kind |-> kind, status |-> 0]
HTTPStatusError(status) == [kind |-> "HTTPStatusError", status |-> status]

\* What Perplexity can answer: no answer (timeout, connection failure), a
\* non-2xx status, a body that is not JSON, JSON without
\* choices[0].message.content, content that is not JSON, or content that is a
\* JSON array of article objects.
RespB(kind, status, articles) ==
    [kind |-> kind, status |-> status, articles |-> articles]

\* line 153: the sort key
SortKey(x) == Get(x.published_date, EmptyStr)

\* Insert x into a list already in descending key order, after the elements
\* whose key is not smaller (sorted() is stable, also with reverse=True).
RECURSIVE InsertDesc(_, _)
InsertDesc(sortedSeq, x) ==
    IF sortedSeq = <<>> THEN <<x>>
    ELSE IF StrLess(SortKey(Head(sortedSeq)), SortKey(x))
    THEN <<x>> \o sortedSeq
    ELSE <<Head(sortedSeq)>> \o InsertDesc(Tail(sortedSeq), x)

\* sorted_by_date without reverse=True
RECURSIVE InsertAsc(_, _)
InsertAsc(sortedSeq, x) ==
    IF sortedSeq = <<>> THEN <<x>>
    ELSE IF StrLess(SortKey(x), SortKey(Head(sortedSeq)))
    THEN <<x>> \o sortedSeq
    ELSE <<Head(sortedSeq)>> \o InsertAsc(Tail(sortedSeq), x)

RECURSIVE SortFrom(_, _)
SortFrom(done, rest) ==
    IF rest = <<>> THEN done
    ELSE SortFrom(InsertDesc(done, Head(rest)), Tail(rest))

RECURSIVE SortAscFrom(_, _)
SortAscFrom(done, rest) ==
    IF rest = <<>> THEN done
    ELSE SortAscFrom(InsertAsc(done, Head(rest)), Tail(rest))

sorted_ascending(articles) == SortAscFrom(<<>>, articles)

\* line 153: sorted(articles, key=lambda x: x.get("published_date", ""),
\* reverse=True)
sorted_by_date(articles) == SortFrom(<<>>, articles)

\* lines 143-153: the return value, or the exception raised
fetch_perplexity(resp) ==
    CASE resp.kind = "transport" ->
            [ret |-> None, exc |-> Some(Exc("TransportError"))]
      [] resp.kind = "status" ->
            [ret |-> None, exc |-> Some(HTTPStatusError(resp.status))]
      [] resp.kind = "notjson" ->
            [ret |-> None, exc |-> Some(Exc("JSONDecodeError"))]
      [] resp.kind = "nochoices" ->
            [ret |-> None, exc |-> Some(KeyError)]
      [] resp.kind = "badcontent" ->
            [ret |-> None, exc |-> Some(Exc("JSONDecodeError"))]
      [] OTHER ->
            [ret |-> Some(sorted_by_date(resp.articles)), exc |-> None]

-----------------------------------------------------------------------------
(* fetch_syracuse *)

BaseUrl ==
    <<104, 116, 116, 112, 115, 58, 47, 47, 115, 121, 114, 97, 99, 117, 115,
      101, 46, 49, 49, 52, 53, 46, 97, 109, 47, 97, 112, 105, 47, 118, 49, 47,
      115, 116, 111, 114, 105, 101, 115, 47, 105, 110, 100, 117, 115, 116,
      114, 121, 45, 108, 111, 99, 97, 116, 105, 111, 110, 47>>

\* What Syracuse can answer to one GET: no answer (timeout, connection
\* failure), a non-2xx status, a body that is not JSON, JSON that is not an
\* object, or a page object with "results" and an optional "next".
RespA(kind, status, results, next) ==
    [kind |-> kind, status |-> status, results |-> results, next |-> next]
PageResp(results, next) == RespA("page", 200, results, next)

\* `while url`: None and "" end the loop
Truthy(u) == u # None /\ u[1] # EmptyStr

\* Extend as an assignment: all_results = data.get("results", [])
ExtendMutant(list, more) == more

\* line 81: all_results.extend(...)
Extend(list, more) == list \o more

\* lines 78-83: one pass of the loop body on the answer resp
SyracusePass(resp) ==
    CASE resp.kind = "transport" ->
            [exc |-> Some(Exc("TransportError")), all_results |-> all_results,
             url |-> url, params |-> params]
      [] resp.kind = "status" ->
            [exc |-> Some(HTTPStatusError(resp.status)),
             all_results |-> all_results, url |-> url, params |-> params]
      [] resp.kind = "notjson" ->
            [exc |-> Some(Exc("JSONDecodeError")), all_results |-> all_results,
             url |-> url, params |-> params]
      [] resp.kind = "notobject" ->
            [exc |-> Some(Exc("AttributeError")), all_results |-> all_results,
             url |-> url, params |-> params]
      [] OTHER ->
            [exc |-> None, all_results |-> Extend(all_results, resp.results),
             url |-> resp.next, params |-> None]

-----------------------------------------------------------------------------
(* The try/except around each provider (lines 268-277, 282-291) *)

\* Exception classes that derive from Exception
ExceptionClasses ==
    {"HTTPStatusError", "TransportError", "JSONDecodeError", "AttributeError",
     "KeyError"}

\* Catches without the `except Exception` clause
CatchesStatusOnly(exc) == exc.kind = "HTTPStatusError"

\* except httpx.HTTPStatusError ... except Exception
Catches(exc) ==
    exc.kind = "HTTPStatusError" \/ exc.kind \in ExceptionClasses

\* lines 275, 277, 289, 291: the st.error element; withStatus and generic
\* are the provider's two message prefixes
ErrorEl(withStatus, generic, exc) ==
    IF exc.kind = "HTTPStatusError"
    THEN El("error", withStatus \o IntToStr(exc.status) \o <<41, 58, 32>>)
    ELSE El("error", generic)

SyracuseError(exc) ==
    ErrorEl(<<83, 121, 114, 97, 99, 117, 115, 101, 32, 101, 114, 114, 111,
              114, 32, 40>>,
            <<83, 121, 114, 97, 99, 117, 115, 101, 32, 101, 114, 114, 111,
              114, 58, 32>>, exc)

PerplexityError(exc) ==
    ErrorEl(<<80, 101, 114, 112, 108, 101, 120, 105, 116, 121, 32, 101, 114,
              114, 111, 114, 32, 40>>,
            <<80, 101, 114, 112, 108, 101, 120, 105, 116, 121, 32, 101, 114,
              114, 111, 114, 58, 32>>, exc)

\* lines 272, 286: st.caption(f"Query took {elapsed:.1f}s")
Timing == El("timing", <<81, 117, 101, 114, 121, 32, 116, 111, 111, 107, 32>>)

-----------------------------------------------------------------------------
(* check_password and the session state *)

NoCredentials == [u \in {} |-> EmptyStr]

\* CredentialsMatch as credentials.get(username, "") == password
CredentialsMatchMutant(creds, username, password) ==
    (IF username \in DOMAIN creds THEN creds[username] ELSE EmptyStr)
        = password

\* line 47: credentials.get(username) == password
CredentialsMatch(creds, username, password) ==
    username \in DOMAIN creds /\ creds[username] = password

\* lines 33-38: check_password() returns True without drawing the form
PassesWithoutLogin(auth, creds) == auth \/ DOMAIN creds = {}

\* line 230: LOCATIONS[0] if LOCATIONS else ""
FirstLocation(locs) == IF locs # <<>> THEN locs[1] ELSE EmptyStr

\* line 235: random.choice(LOCATIONS) if LOCATIONS else ""
RandomLocations(locs) ==
    IF locs # <<>> THEN {locs[i] : i \in 1..Len(locs)} ELSE {EmptyStr}

\* GetNewsEnabled without .strip()
GetNewsEnabledMutant(text, loc) == text # EmptyStr /\ loc # EmptyStr

\* line 258: not disabled
GetNewsEnabled(text, loc) == Strip(text) # EmptyStr /\ loc # EmptyStr

\* A script run that does not take the Get News branch draws no panel.
NoHandler ==
    /\ industry' = EmptyStr /\ reqLocation' = EmptyStr
    /\ url' = None /\ params' = None /\ all_results' = <<>>
    /\ retA' = None /\ netA' = None /\ served' = <<>>
    /\ netB' = None /\ respB' = None /\ retB' = None
    /\ panelA' = <<>> /\ panelB' = <<>> /\ crashed' = FALSE

Interactive == pc \in {"idle", "done"}

\* lines 40-53: the login form is submitted
LoginSubmit(username, password) ==
    /\ screen = "login" /\ pc = "idle"
    /\ loginForm' = Some(<<username, password>>)
    /\ IF CredentialsMatch(credentials, username, password)
       THEN /\ authenticated' = TRUE
            /\ screen' = "main"
            /\ category_text' = EmptyStr
            /\ location' = FirstLocation(locations)
       ELSE UNCHANGED <<authenticated, screen, category_text, location>>
    /\ UNCHANGED <<cfgVars, pc, handlerVars>>

\* lines 233-235, 240
do_randomize ==
    /\ screen = "main" /\ Interactive
    /\ category_text' \in pick_random_category(categories)
    /\ location' \in RandomLocations(locations)
    /\ pc' = "idle" /\ NoHandler
    /\ UNCHANGED <<cfgVars, authenticated, loginForm, screen>>

\* line 247: the user types a category
EditCategory(text) ==
    /\ screen = "main" /\ Interactive
    /\ category_text' = text
    /\ pc' = "idle" /\ NoHandler
    /\ UNCHANGED <<cfgVars, authenticated, location, loginForm, screen>>

\* line 256: the user selects a location
SelectLocation(i) ==
    /\ screen = "main" /\ Interactive
    /\ i \in 1..Len(locations)
    /\ location' = locations[i]
    /\ pc' = "idle" /\ NoHandler
    /\ UNCHANGED <<cfgVars, authenticated, category_text, loginForm, screen>>

-----------------------------------------------------------------------------
(* The Get News handler, lines 258-291 *)

\* lines 258-263 and 72-76: the click, up to the first test of `while url`
GetNews ==
    /\ screen = "main" /\ Interactive
    /\ GetNewsEnabled(category_text, location)
    /\ industry' = Strip(category_text)
    /\ reqLocation' = location
    /\ url' = Some(BaseUrl)
    /\ params' = Some([industry |-> Strip(category_text),
                        location |-> location, days_ago |-> NUM_DAYS])
    /\ all_results' = <<>>
    /\ retA' = None /\ netA' = None /\ served' = <<>>
    /\ netB' = None /\ respB' = None /\ retB' = None
    /\ panelA' = <<>> /\ panelB' = <<>> /\ crashed' = FALSE
    /\ pc' = "syr_loop"
    /\ UNCHANGED <<cfgVars, authenticated, category_text, location, loginForm,
                   screen>>

\* lines 77-78: `while url` holds and the GET is sent
SyracuseSend ==
    /\ pc = "syr_loop" /\ Truthy(url)
    /\ netA' = Some([url |-> url[1], params |-> params])
    /\ pc' = "syr_await"
    /\ UNCHANGED <<cfgVars, authenticated, category_text, location, loginForm,
                   screen, industry, reqLocation, url, params, all_results,
                   retA, served, netB, respB, retB, panelA, panelB, crashed>>

\* lines 78-83 on the answer resp; an exception goes to lines 274-277
SyracuseRecv(resp) ==
    /\ pc = "syr_await"
    /\ netA' = None
    /\ LET pass == SyracusePass(resp)
       IN  IF pass.exc = None
           THEN /\ all_results' = pass.all_results
                /\ url' = pass.url
                /\ params' = pass.params
                /\ pc' = "syr_loop"
                /\ UNCHANGED <<panelA, crashed>>
           ELSE /\ IF Catches(pass.exc[1])
                   THEN /\ panelA' = Append(panelA, SyracuseError(pass.exc[1]))
                        /\ pc' = "pplx_send"
                        /\ crashed' = crashed
                   ELSE /\ panelA' = panelA
                        /\ pc' = "crashed"
                        /\ crashed' = TRUE
                /\ UNCHANGED <<all_results, url, params>>
    /\ UNCHANGED <<cfgVars, authenticated, category_text, location, loginForm,
                   screen, industry, reqLocation, retA, netB, respB, retB,
                   panelB>>

\* lines 77, 85: `while url` fails and fetch_syracuse returns
SyracuseReturn ==
    /\ pc = "syr_loop" /\ ~Truthy(url)
    /\ retA' = Some([count |-> Len(all_results), results |-> all_results])
    /\ pc' = "syr_returned"
    /\ UNCHANGED <<cfgVars, authenticated, category_text, location, loginForm,
                   screen, industry, reqLocation, url, params, all_results,
                   netA, served, netB, respB, retB, panelA, panelB, crashed>>

\* What a try block draws after its fetch returned: the timing caption, the
\* renderer's elements, and the except clause's error if the renderer raised.
DrawnIntoPanel(rendered, errorEl) ==
    <<Timing>> \o rendered.out
        \o (IF rendered.exc # None /\ Catches(rendered.exc[1])
            THEN <<errorEl>> ELSE <<>>)

Propagates(rendered) == rendered.exc # None /\ ~Catches(rendered.exc[1])

\* lines 271-277
SyracuseRender ==
    /\ pc = "syr_returned"
    /\ LET rendered == render_syracuse_results(retA[1])
       IN  /\ panelA' = panelA \o DrawnIntoPanel(rendered,
                            SyracuseError(Get(rendered.exc, KeyError)))
           /\ crashed' = Propagates(rendered)
           /\ pc' = IF Propagates(rendered) THEN "crashed" ELSE "pplx_send"
    /\ UNCHANGED <<cfgVars, authenticated, category_text, location, loginForm,
                   screen, industry, reqLocation, url, params, all_results,
                   retA, netA, served, netB, respB, retB, panelB>>

\* lines 282-284, 143-148: the POST is sent
PerplexitySend ==
    /\ pc = "pplx_send"
    /\ netB' = Some([industry |-> industry, location |-> reqLocation,
                      days |-> NUM_DAYS])
    /\ pc' = "pplx_await"
    /\ UNCHANGED <<cfgVars, authenticated, category_text, location, loginForm,
                   screen, industry, reqLocation, url, params, all_results,
                   retA, netA, served, respB, retB, panelA, panelB, crashed>>

\* lines 143-153 on the answer resp; an exception goes to lines 288-291
PerplexityRecv(resp) ==
    /\ pc = "pplx_await"
    /\ netB' = None
    /\ respB' = Some(resp)
    /\ LET fetched == fetch_perplexity(resp)
       IN  IF fetched.exc = None
           THEN /\ retB' = fetched.ret
                /\ pc' = "pplx_returned"
                /\ UNCHANGED <<panelB, crashed>>
           ELSE /\ IF Catches(fetched.exc[1])
                   THEN /\ panelB' = Append(panelB,
                                        PerplexityError(fetched.exc[1]))
                        /\ pc' = "done"
                        /\ crashed' = crashed
                   ELSE /\ panelB' = panelB
                        /\ pc' = "crashed"
                        /\ crashed' = TRUE
                /\ retB' = retB
    /\ UNCHANGED <<cfgVars, authenticated, category_text, location, loginForm,
                   screen, industry, reqLocation, url, params, all_results,
                   retA, netA, served, panelA>>

\* lines 285-291
PerplexityRender ==
    /\ pc = "pplx_returned"
    /\ LET rendered == render_perplexity_results(retB[1])
       IN  /\ panelB' = panelB \o DrawnIntoPanel(rendered,
                            PerplexityError(Get(rendered.exc, KeyError)))
           /\ crashed' = Propagates(rendered)
           /\ pc' = IF Propagates(rendered) THEN "crashed" ELSE "done"
    /\ UNCHANGED <<cfgVars, authenticated, category_text, location, loginForm,
                   screen, industry, reqLocation, url, params, all_results,
                   retA, netA, served, netB, respB, retB, panelA>>

-----------------------------------------------------------------------------
(* Inputs *)

RECURSIVE SeqsUpTo(_, _)
SeqsUpTo(S, n) ==
    IF n = 0 THEN {<<>>}
    ELSE LET shorter == SeqsUpTo(S, n - 1)
         IN  shorter \cup {Append(q, x) : q \in shorter, x \in S}

Europe == <<69, 117, 114, 111, 112, 101>>
PageUrl(i) == BaseUrl \o <<63, 112, 97, 103, 101, 61>> \o IntToStr(i)

\* Configurations of the application
EmptyTaxonomy == [t \in {} |-> NotADict]
AppCredentials ==
    {NoCredentials,
     [u \in {<<97>>, <<98>>} |-> IF u = <<97>> THEN <<112>> ELSE EmptyStr]}
AppTaxonomies ==
    {EmptyTaxonomy, [t \in {<<32>>} |-> NotADict],
     [t \in {<<65>>} |-> Dict(SubMap(1))]}
AppLocations == {<<>>, <<EmptyStr, Europe>>}

\* What the user can type
LoginUsers == {<<97>>, <<98>>, <<99>>}
LoginPasswords == {EmptyStr, <<112>>, <<113>>}
CategoryInputs == {EmptyStr, <<32>>, <<32, 97, 9>>}

\* What the providers can answer to the application
AppStories ==
    {Item(h, None, None, None, None) : h \in {None, Some(<<72>>)}}
AppResponsesA ==
    {RespA("transport", 0, <<>>, None), RespA("status", 500, <<>>, None),
     RespA("notjson", 200, <<>>, None), RespA("notobject", 200, <<>>, None)}
    \cup {PageResp(r, n) : r \in SeqsUpTo(AppStories, MaxPageItems),
                           n \in {None, Some(EmptyStr), Some(PageUrl(2))}}
AppArticles ==
    {Item(h, d, None, None, None) :
        h \in {None, Some(<<72>>)}, d \in {None, Some(<<50, 48, 50, 52>>)}}
AppResponsesB ==
    {RespB("transport", 0, <<>>), RespB("status", 401, <<>>),
     RespB("notjson", 200, <<>>), RespB("nochoices", 200, <<>>),
     RespB("badcontent", 200, <<>>)}
    \cup {RespB("array", 200, a) : a \in SeqsUpTo(AppArticles, MaxRender)}

-----------------------------------------------------------------------------
(* Spec: the application *)

Init ==
    /\ credentials \in AppCredentials
    /\ categories \in AppTaxonomies
    /\ locations \in AppLocations
    /\ authenticated = FALSE
    /\ loginForm = None
    /\ screen = IF PassesWithoutLogin(FALSE, credentials)
                THEN "main" ELSE "login"
    /\ category_text = EmptyStr
    /\ location = IF PassesWithoutLogin(FALSE, credentials)
                  THEN FirstLocation(locations) ELSE EmptyStr
    /\ pc = "idle"
    /\ industry = EmptyStr /\ reqLocation = EmptyStr
    /\ url = None /\ params = None /\ all_results = <<>>
    /\ retA = None /\ netA = None /\ served = <<>>
    /\ netB = None /\ respB = None /\ retB = None
    /\ panelA = <<>> /\ panelB = <<>> /\ crashed = FALSE

Login == \E u \in LoginUsers, p \in LoginPasswords : LoginSubmit(u, p)
Edit == \E text \in CategoryInputs : EditCategory(text)
Select == \E i \in 1..2 : SelectLocation(i)

\* Syracuse answers; it serves one call at most MaxStories stories.
AppSyracuseRecv ==
    \E resp \in AppResponsesA :
        /\ Len(all_results) + Len(resp.results) <= MaxStories
        /\ SyracuseRecv(resp)
        /\ UNCHANGED served

AppPerplexityRecv == \E resp \in AppResponsesB : PerplexityRecv(resp)

Next ==
    \/ Login
    \/ do_randomize
    \/ Edit
    \/ Select
    \/ GetNews
    \/ SyracuseSend
    \/ AppSyracuseRecv
    \/ SyracuseReturn
    \/ SyracuseRender
    \/ PerplexitySend
    \/ AppPerplexityRecv
    \/ PerplexityRender

Spec == Init /\ [][Next]_vars

\* The handler runs to its end once started, and every HTTP request is
\* answered or times out.
FairSpec ==
    /\ Spec
    /\ WF_vars(SyracuseSend)
    /\ WF_vars(AppSyracuseRecv)
    /\ WF_vars(SyracuseReturn)
    /\ WF_vars(SyracuseRender)
    /\ WF_vars(PerplexitySend)
    /\ WF_vars(AppPerplexityRecv)
    /\ WF_vars(PerplexityRender)

-----------------------------------------------------------------------------
(* The session of the specifications that start inside the handler: no     *)
(* credentials are configured and " a " in Europe was submitted.           *)

SubmittedSession ==
    /\ credentials = NoCredentials
    /\ categories = EmptyTaxonomy
    /\ locations = <<Europe>>
    /\ authenticated = FALSE
    /\ loginForm = None
    /\ screen = "main"
    /\ category_text = <<32, 97, 9>>
    /\ location = Europe
    /\ industry = <<97>>
    /\ reqLocation = Europe
    /\ crashed = FALSE

FirstParams == [industry |-> <<97>>, location |-> Europe, days_ago |-> NUM_DAYS]

\* Syracuse's first request was not answered: lines 276-277 drew the error.
SyracuseFailed ==
    /\ url = Some(BaseUrl) /\ params = Some(FirstParams)
    /\ all_results = <<>> /\ retA = None /\ netA = None /\ served = <<>>
    /\ panelA = <<SyracuseError(Exc("TransportError"))>>

-----------------------------------------------------------------------------
(* FetchSpec: fetch_syracuse against every chain of at most MaxPages pages *)

ChainStories ==
    {Item(Some(h), None, None, None, None) : h \in {<<72>>, <<74>>}}

FetchInit ==
    /\ SubmittedSession
    /\ pc = "syr_loop"
    /\ url = Some(BaseUrl) /\ params = Some(FirstParams)
    /\ all_results = <<>> /\ retA = None /\ netA = None /\ served = <<>>
    /\ netB = None /\ respB = None /\ retB = None
    /\ panelA = <<>> /\ panelB = <<>>

\* Page Len(served) + 1 of the chain answers the request for its URL; its
\* "next" is the URL of the following page, or absent on the last page.
ChainRecv ==
    \E r \in SeqsUpTo(ChainStories, MaxPageItems), more \in BOOLEAN :
        LET i == Len(served) + 1
            page == PageResp(r, IF more THEN Some(PageUrl(i + 1)) ELSE None)
        IN  /\ i <= MaxPages
            /\ more => i < MaxPages
            /\ netA # None
            /\ netA[1].url = IF i = 1 THEN BaseUrl ELSE PageUrl(i)
            /\ SyracuseRecv(page)
            /\ served' = Append(served, page)

FetchNext == SyracuseSend \/ ChainRecv \/ SyracuseReturn
FetchSpec == FetchInit /\ [][FetchNext]_vars

-----------------------------------------------------------------------------
(* SortSpec: fetch_perplexity on every parsed array of SortArticles *)

SortDates == {None, Some(EmptyStr),
              Some(<<50, 48, 50, 52>>),
              Some(<<50, 48, 50, 52, 45, 48, 49, 45, 48, 51>>),
              Some(<<50, 48, 50, 52, 45, 48, 50, 45, 48, 49>>)}
SortArticles ==
    {Item(Some(h), d, None, None, None) : h \in {<<72>>, <<74>>}, d \in SortDates}

SortInit ==
    /\ SubmittedSession /\ SyracuseFailed
    /\ pc = "pplx_await"
    /\ netB = Some([industry |-> <<97>>, location |-> Europe,
                     days |-> NUM_DAYS])
    /\ respB = None /\ retB = None /\ panelB = <<>>

SortRecv ==
    \E a \in SeqsUpTo(SortArticles, MaxArticles) :
        PerplexityRecv(RespB("array", 200, a))

SortNext == SortRecv
SortSpec == SortInit /\ [][SortNext]_vars

-----------------------------------------------------------------------------
(* RenderSpec: each renderer on every list of at most MaxRender items *)

Text(n) == [i \in 1..n |-> 97 + (i % 26)]
RenderSummaries ==
    {None, Some(EmptyStr), Some(Text(200)), Some(Text(SummaryLimit)),
     Some(Text(SummaryLimit + 1)), Some(Text(350))}
RenderUrls == {None, Some(EmptyStr), Some(<<117>>)}
RenderStories ==
    {Item(Some(<<72>>), None, s, None, u) :
        s \in RenderSummaries, u \in RenderUrls}
RenderArticles ==
    {Item(Some(<<72>>), None, None, s, u) :
        s \in RenderSummaries, u \in RenderUrls}

RenderInit ==
    /\ SubmittedSession
    /\ \/ /\ pc = "syr_returned"
          /\ all_results \in SeqsUpTo(RenderStories, MaxRender)
          /\ retA = Some([count |-> Len(all_results),
                          results |-> all_results])
          /\ url = None /\ params = None /\ netA = None /\ served = <<>>
          /\ panelA = <<>>
          /\ respB = None /\ retB = None
       \/ /\ pc = "pplx_returned"
          /\ SyracuseFailed
          /\ retB \in {Some(a) : a \in SeqsUpTo(RenderArticles, MaxRender)}
          /\ respB = Some(RespB("array", 200, retB[1]))
    /\ netB = None /\ panelB = <<>>

RenderNext == SyracuseRender \/ PerplexityRender
RenderSpec == RenderInit /\ [][RenderNext]_vars

-----------------------------------------------------------------------------
(* PickSpec: do_randomize on every taxonomy of Taxonomies *)

PickInit ==
    /\ credentials = NoCredentials
    /\ categories \in Taxonomies
    /\ locations = <<Europe>>
    /\ authenticated = FALSE
    /\ loginForm = None
    /\ screen = "main"
    /\ category_text \in CategoryInputs
    /\ location = Europe
    /\ pc = "idle"
    /\ industry = EmptyStr /\ reqLocation = EmptyStr
    /\ url = None /\ params = None /\ all_results = <<>>
    /\ retA = None /\ netA = None /\ served = <<>>
    /\ netB = None /\ respB = None /\ retB = None
    /\ panelA = <<>> /\ panelB = <<>> /\ crashed = FALSE

PickNext == do_randomize
PickSpec == PickInit /\ [][PickNext]_vars

-----------------------------------------------------------------------------
(* Reading a column *)

HasKind(panel, kind) == \E i \in 1..Len(panel) : panel[i].kind = kind
ErrorCount(panel) == Cardinality({i \in 1..Len(panel) : panel[i].kind = "error"})
SuccessShown(panel) ==
    \E i \in 1..Len(panel) :
        panel[i].kind \in {"timing", "header", "headline", "meta", "body",
                           "links", "divider"}
Failed(panel) == HasKind(panel, "error")
Succeeded(panel) == HasKind(panel, "timing") /\ ~Failed(panel)

\* The elements of a column item by item: each item's elements end with its
\* divider.
RECURSIVE Blocks(_, _)
Blocks(els, cur) ==
    IF els = <<>> THEN (IF cur = <<>> THEN <<>> ELSE <<cur>>)
    ELSE IF Head(els).kind = "divider"
    THEN <<cur>> \o Blocks(Tail(els), <<>>)
    ELSE Blocks(Tail(els), Append(cur, Head(els)))

IsItemElement(e) == e.kind \notin {"timing", "header", "error"}
ItemBlocks(panel) == Blocks(SelectSeq(panel, IsItemElement), <<>>)

\* The body excerpt an item's block shows ("" when it shows none).
IsBody(e) == e.kind = "body"
BodyShown(block) ==
    LET bodies == SelectSeq(block, IsBody)
    IN  IF bodies = <<>> THEN EmptyStr ELSE bodies[1].text

Excerpt(summary) ==
    IF Len(summary) <= 300 THEN summary
    ELSE SubSeq(summary, 1, 300) \o <<46, 46, 46>>

IsPrefixOf(p, s) == Len(p) <= Len(s) /\ SubSeq(s, 1, Len(p)) = p

\* A block has a source-link line that says "No source URL".
SaysNoSourceUrl(block) ==
    \E k \in 1..Len(block) :
        /\ block[k].kind = "links"
        /\ IsPrefixOf(<<78, 111, 32, 115, 111, 117, 114, 99, 101, 32, 85, 82,
                        76>>, block[k].text)

IsBlank(s) == \A i \in 1..Len(s) : s[i] \in Whitespace

(* Reading a fetch *)

RECURSIVE ConcatResults(_)
ConcatResults(pages) ==
    IF pages = <<>> THEN <<>>
    ELSE Head(pages).results \o ConcatResults(Tail(pages))

RECURSIVE SumLengths(_)
SumLengths(pages) ==
    IF pages = <<>> THEN 0
    ELSE Len(Head(pages).results) + SumLengths(Tail(pages))

IsChain(pages) ==
    /\ pages # <<>>
    /\ \A i \in 1..(Len(pages) - 1) : pages[i].next = Some(PageUrl(i + 1))
    /\ pages[Len(pages)].next = None

Count(q, x) == Cardinality({i \in 1..Len(q) : q[i] = x})
IsPermutation(p, q) ==
    /\ Len(p) = Len(q)
    /\ \A i \in 1..Len(p) : Count(p, p[i]) = Count(q, p[i])

DateOf(x) ==
    IF x.published_date = None THEN EmptyStr ELSE x.published_date[1]

-----------------------------------------------------------------------------
(* Claims *)

\* C1: whatever the outcome of the Syracuse call, no exception leaves the
\* Get News handler, the Perplexity call is still made and answered, and the
\* Perplexity column shows Perplexity's own outcome: its results when its
\* answer is a parsed array of articles with headlines, an error otherwise.
\* In particular Syracuse failing and Perplexity answering well gives
\* (Failure, Success) with Perplexity's articles drawn.
C1_ProviderIndependence ==
    /\ ~crashed /\ pc # "crashed"
    /\ pc \in {"pplx_send", "pplx_await", "pplx_returned", "done"}
        => (Failed(panelA) \/ Succeeded(panelA))
    /\ pc \in {"pplx_returned", "done"} => respB # None
    /\ pc = "done" =>
        LET answer == respB[1]
            shown == Prefix(answer.articles, 20)
            good == /\ answer.kind = "array"
                    /\ \A i \in 1..Len(shown) : shown[i].headline # None
        IN  /\ good => /\ Succeeded(panelB)
                       /\ Len(ItemBlocks(panelB)) = Len(shown)
            /\ ~good => Failed(panelB)

\* Syracuse failed, Perplexity succeeded and its articles are drawn
C1_Witness ==
    /\ pc = "done"
    /\ Failed(panelA) /\ ~HasKind(panelA, "timing")
    /\ Succeeded(panelB)
    /\ Len(ItemBlocks(panelB)) >= 1

\* C2: for a chain of pages (page i's next is page i+1's URL, the last page
\* has none) fetch_syracuse returns the pages' results concatenated in page
\* and item order, and count is the sum of the pages' lengths.
C2_PagesConcatenated ==
    (pc = "syr_returned" /\ IsChain(served)) =>
        /\ retA # None
        /\ retA[1].results = ConcatResults(served)
        /\ retA[1].count = SumLengths(served)

\* page 1 has two stories and a next, page 2 has one story and no next: three
\* stories are returned, not all the same
C2_Witness ==
    /\ pc = "syr_returned"
    /\ IsChain(served)
    /\ Len(served) = 2
    /\ Len(served[1].results) = 2
    /\ Len(served[2].results) = 1
    /\ served[1].results[1] # served[1].results[2]
    /\ retA[1].count = 3

PanelConcluded(panel) == HasKind(panel, "timing") \/ HasKind(panel, "error")

\* C3: once a request is dispatched, both provider calls end and both columns
\* reach an outcome, whatever pages Syracuse answers with.
C3_Terminates ==
    (pc = "syr_loop") ~> (PanelConcluded(panelA) /\ PanelConcluded(panelB))

\* C4: Get News is enabled only with a non-blank category and a non-empty
\* location, so the handler never runs, and no request is ever in flight,
\* with a blank category or an empty location.
C4_SubmitGated ==
    /\ pc # "idle" =>
        /\ ~IsBlank(category_text) /\ location # EmptyStr
        /\ ~IsBlank(industry) /\ reqLocation # EmptyStr
    /\ (netA # None /\ netA[1].params # None) =>
        /\ ~IsBlank(netA[1].params[1].industry)
        /\ netA[1].params[1].location # EmptyStr
    /\ netB # None =>
        /\ ~IsBlank(netB[1].industry)
        /\ netB[1].location # EmptyStr

\* a category typed with surrounding whitespace is in flight to Syracuse
C4_Witness ==
    /\ netA # None /\ netA[1].params # None
    /\ category_text # Strip(category_text)
    /\ netA[1].params[1].industry = Strip(category_text)

\* C5: for every parsed array of article records, fetch_perplexity returns a
\* permutation of it in descending published_date order, a record without
\* published_date counting as "" and so coming after every dated record.
C5_SortedDescending ==
    pc = "pplx_returned" =>
        LET parsed == respB[1].articles
            out == retB[1]
        IN  /\ retB # None
            /\ IsPermutation(parsed, out)
            /\ \A i, j \in 1..Len(out) :
                i < j => ~StrLess(DateOf(out[i]), DateOf(out[j]))
            /\ \A i, j \in 1..Len(out) :
                (DateOf(out[i]) = EmptyStr /\ DateOf(out[j]) # EmptyStr)
                    => j < i

\* the dates "2024-01-03", none, "2024-02-01" came out as
\* "2024-02-01", "2024-01-03", none
C5_Witness ==
    /\ pc = "pplx_returned"
    /\ Len(respB[1].articles) = 3
    /\ respB[1].articles[1].published_date
        = Some(<<50, 48, 50, 52, 45, 48, 49, 45, 48, 51>>)
    /\ respB[1].articles[2].published_date = None
    /\ respB[1].articles[3].published_date
        = Some(<<50, 48, 50, 52, 45, 48, 50, 45, 48, 49>>)
    /\ retB[1][1].published_date
        = Some(<<50, 48, 50, 52, 45, 48, 50, 45, 48, 49>>)
    /\ retB[1][2].published_date
        = Some(<<50, 48, 50, 52, 45, 48, 49, 45, 48, 51>>)
    /\ retB[1][3].published_date = None

\* C6: for every displayed item of either provider, the body excerpt is the
\* summary unchanged when it has at most 300 characters and its first 300
\* characters followed by "..." otherwise.
C6_ExcerptTruncated ==
    /\ (pc = "pplx_send" /\ retA # None) =>
        LET blocks == ItemBlocks(panelA)
        IN  /\ Len(blocks) = Min(20, Len(retA[1].results))
            /\ \A i \in 1..Len(blocks) :
                BodyShown(blocks[i]) =
                    Excerpt(Get(retA[1].results[i].document_extract,
                                EmptyStr))
    /\ (pc = "done" /\ retB # None) =>
        LET blocks == ItemBlocks(panelB)
        IN  /\ Len(blocks) = Min(20, Len(retB[1]))
            /\ \A i \in 1..Len(blocks) :
                BodyShown(blocks[i]) =
                    Excerpt(Get(retB[1][i].summary_text, EmptyStr))

\* C7: for every displayed item of either provider without a document URL
\* (absent or empty), the item's block has a source-link line that says
\* "No source URL".
C7_NoSourceUrlStated ==
    /\ (pc = "pplx_send" /\ retA # None) =>
        LET blocks == ItemBlocks(panelA)
        IN  \A i \in 1..Len(blocks) :
                Get(retA[1].results[i].document_url, EmptyStr) = EmptyStr
                    => SaysNoSourceUrl(blocks[i])
    /\ (pc = "done" /\ retB # None) =>
        LET blocks == ItemBlocks(panelB)
        IN  \A i \in 1..Len(blocks) :
                Get(retB[1][i].document_url, EmptyStr) = EmptyStr
                    => SaysNoSourceUrl(blocks[i])

\* C8: every Randomize step leaves "" in the category field when the
\* taxonomy has no top-level key, and a non-empty string when it has one,
\* whatever the branch and the random choices.
C8_PickNonEmpty ==
    [][/\ DOMAIN categories = {} => category_text' = EmptyStr
       /\ DOMAIN categories # {} => category_text' # EmptyStr]_vars

\* the top-level key "A", which has no sub-industry mapping, was returned bare
C8_Witness ==
    /\ <<65>> \in DOMAIN categories
    /\ ~categories[<<65>>].isDict
    /\ category_text = <<65>>

\* C9: when the handler is done, each column shows either success output
\* (timing caption, count line, items) or one error message, not both and
\* not neither.
C9_ExactlyOneOutcome ==
    pc = "done" =>
        \A panel \in {panelA, panelB} :
            \/ SuccessShown(panel) /\ ErrorCount(panel) = 0
            \/ ~SuccessShown(panel) /\ ErrorCount(panel) = 1

\* C10: with credentials configured, the main screen is drawn and a handler
\* runs only in an authenticated session, and the session is authenticated
\* exactly when the last submitted login form holds a configured username
\* with its configured password; until then the login screen stays.
C10_LoginGate ==
    DOMAIN credentials # {} =>
        /\ (screen = "main" \/ pc # "idle" \/ netA # None \/ netB # None)
            => authenticated
        /\ authenticated <=>
            /\ loginForm # None
            /\ loginForm[1][1] \in DOMAIN credentials
            /\ credentials[loginForm[1][1]] = loginForm[1][2]
        /\ ~authenticated => screen = "login"

\* a request is in flight in a session that logged in
C10_Witness ==
    /\ DOMAIN credentials # {}
    /\ authenticated
    /\ netA # None

====
